---- MODULE Spec2Model ----
(***************************************************************************)
(* Model of the Fitness Influencer Portfolio API (src/main.py,             *)
(* src/schemas.py): the startup seeder, the two blog read endpoints and    *)
(* the contact endpoint, over a document store with the two collections    *)
(* "blogpost" and "message".                                               *)
(*                                                                         *)
(* Optional values (Python's Optional[...], a missing JSON field) are      *)
(* sequences of length 0 (None / missing) or 1 (the value).  An e-mail     *)
(* address is a sequence of characters.  Timestamps, excerpt, cover_image, *)
(* phone and subject are carried by no decision of the code and are left   *)
(* out of the documents.                                                   *)
(***************************************************************************)
EXTENDS Naturals, Sequences, FiniteSets

VARIABLES
    db,        \* the store handle of database.py: "None" or "Connected"
    blogpost,  \* collection "blogpost": documents in insertion order
    message,   \* collection "message": documents in insertion order
    pc,        \* per process: "startup", "seeding", "serving", "crashed"
    sidx,      \* per process: fixtures inserted so far by its seeder loop
    outcome,   \* per process: the path seed_sample_blogposts took
    http       \* the request being handled or the last response

vars == <<db, blogpost, message, pc, sidx, outcome, http>>

(* ------------------------------ bounds -------------------------------- *)

NumProcs == 2
MaxExternal == 1
MaxMessages == 1
MaxEmailLen == 5

Procs == 1..NumProcs

(* ----------------------------- constants ------------------------------ *)

ListLimit == 50

SampleSlug == "building-strength-in-the-city"
SecondSlug == "fueling-for-performance"

Sample1 ==
    [title |-> "Building Strength in the City", slug |-> SampleSlug,
     content |-> "30-minute strength protocol",
     tags |-> <<"strength", "london", "training">>, published |-> TRUE]

Sample2 ==
    [title |-> "Fueling for Performance: Simple Meal Guide", slug |-> SecondSlug,
     content |-> "staple meals",
     tags |-> <<"nutrition", "performance">>, published |-> TRUE]

Samples_OnlyFirst == <<Sample1>>

\* samples = [...]: the fixture posts the seeder inserts, in order.
Samples == <<Sample1, Sample2>>

\* The post the read endpoints serve when the store handle is None.
SamplePost ==
    [title |-> "Building Strength in the City", slug |-> SampleSlug,
     content |-> "Sample content",
     tags |-> <<"strength", "london", "training">>, published |-> TRUE]

(* ------------------------------ helpers ------------------------------- *)

RECURSIVE Take(_, _)
Take(s, n) == IF n = 0 \/ s = <<>> THEN <<>> ELSE <<Head(s)>> \o Take(Tail(s), n - 1)

MapSeq(Op(_), s) == [i \in DOMAIN s |-> Op(s[i])]

(* --------------------------- schemas.py ------------------------------- *)

Chars == {"a", "@", "."}

DotAtom(x) ==
    /\ x # <<>>
    /\ x[1] # "."
    /\ x[Len(x)] # "."
    /\ \A i \in 1..(Len(x) - 1) : ~(x[i] = "." /\ x[i + 1] = ".")

\* EmailStr: exactly one "@", a dot-atom before it, a dotted domain after it.
EmailStr(s) ==
    LET ats == {i \in DOMAIN s : s[i] = "@"}
    IN /\ Cardinality(ats) = 1
       /\ LET a == CHOOSE i \in ats : TRUE
              local == SubSeq(s, 1, a - 1)
              domain == SubSeq(s, a + 1, Len(s))
          IN /\ DotAtom(local)
             /\ DotAtom(domain)
             /\ \E i \in DOMAIN domain : domain[i] = "."

Message_NoEmailCheck(raw) ==
    /\ raw.name # <<>>
    /\ raw.email # <<>>
    /\ raw.message # <<>>

\* Message(**raw) validates: name, email and message required, email an EmailStr.
Message(raw) ==
    /\ raw.name # <<>>
    /\ raw.email # <<>> /\ EmailStr(raw.email[1])
    /\ raw.message # <<>>

\* msg.model_dump(): the validated fields, source at its default.
model_dump(raw) ==
    [name |-> raw.name[1], email |-> raw.email[1],
     message |-> raw.message[1], source |-> "website"]

(* ---------------------------- the store ------------------------------- *)

\* A filter document matches when every key it gives matches; a scalar
\* given for the array field tags matches an array holding that element.
Matches(d, q) ==
    /\ (q.published = <<>> \/ d.published = q.published[1])
    /\ (q.tags = <<>> \/ \E i \in DOMAIN d.tags : d.tags[i] = q.tags[1])
    /\ (q.slug = <<>> \/ d.slug = q.slug[1])

RECURSIVE Find(_, _)
Find(coll, q) ==
    IF coll = <<>> THEN <<>>
    ELSE (IF Matches(Head(coll), q) THEN <<Head(coll)>> ELSE <<>>) \o Find(Tail(coll), q)

\* get_documents(collection, filter, limit): the matches in store order,
\* capped at limit; nothing when no connection is configured.
get_documents(dbh, coll, q, limit) ==
    IF dbh = "None" THEN <<>> ELSE Take(Find(coll, q), limit)

\* db[collection].find_one(filter): the first match, or None.
find_one(coll, q) == Take(Find(coll, q), 1)

\* db[collection].count_documents({})
count_documents(coll) == Len(coll)

\* The stored document: the record plus its store-assigned identifier.
StoredDoc(data, n) ==
    [k \in DOMAIN data \cup {"id"} |-> IF k = "id" THEN n ELSE data[k]]

\* collection.insert_one(document): appended, with a fresh identifier.
insert_one(coll, data) == Append(coll, StoredDoc(data, Len(coll) + 1))

\* create_document(collection, record) when the store accepts the write;
\* when it rejects it, the callers' handlers below take the exception.
create_document(coll, data) == insert_one(coll, data)

(* ------------------------- main.py: mapping --------------------------- *)

\* BlogPostOut(**{k: v for k, v in d.items() if k in model_fields}):
\* the declared fields are kept, the store's identifier is dropped.
BlogPostOut(d) ==
    [title |-> d.title, slug |-> d.slug, content |-> d.content,
     tags |-> d.tags, published |-> d.published]

(* ------------------------- main.py: seeder ---------------------------- *)

ShouldSeed_Always(count) == TRUE

\* if count == 0:
ShouldSeed(count) == count = 0

seed_except_Reraise == "crashed"

\* except Exception: pass  -- the handler returns and startup goes on.
seed_except == "serving"

\* if db is None: return; count = db["blogpost"].count_documents({});
\* if count == 0: enter the loop over samples.
seed_check(p) ==
    /\ pc[p] = "startup"
    /\ UNCHANGED <<db, blogpost, message, sidx, http>>
    /\ IF db = "None"
       THEN /\ pc' = [pc EXCEPT ![p] = "serving"]
            /\ outcome' = [outcome EXCEPT ![p] = "skipped"]
       ELSE \E raises \in BOOLEAN :
              IF raises
              THEN /\ pc' = [pc EXCEPT ![p] = seed_except]
                   /\ outcome' = [outcome EXCEPT ![p] = "swallowed"]
              ELSE IF ShouldSeed(count_documents(blogpost))
                   THEN /\ pc' = [pc EXCEPT ![p] = "seeding"]
                        /\ UNCHANGED outcome
                   ELSE /\ pc' = [pc EXCEPT ![p] = "serving"]
                        /\ outcome' = [outcome EXCEPT ![p] = "noop"]

\* for s in samples: create_document("blogpost", s)  -- one iteration.
seed_insert(p) ==
    /\ pc[p] = "seeding"
    /\ UNCHANGED <<db, message, http>>
    /\ \E rejected \in BOOLEAN :
         IF rejected
         THEN /\ pc' = [pc EXCEPT ![p] = seed_except]
              /\ outcome' = [outcome EXCEPT ![p] = "swallowed"]
              /\ UNCHANGED <<blogpost, sidx>>
         ELSE /\ blogpost' = create_document(blogpost, Samples[sidx[p] + 1])
              /\ sidx' = [sidx EXCEPT ![p] = sidx[p] + 1]
              /\ IF sidx[p] + 1 = Len(Samples)
                 THEN /\ pc' = [pc EXCEPT ![p] = "serving"]
                      /\ outcome' = [outcome EXCEPT ![p] = "seeded"]
                 ELSE UNCHANGED <<pc, outcome>>

seed_sample_blogposts(p) == seed_check(p) \/ seed_insert(p)

\* One process at a time: a process starts up after the ones before it
\* have completed their startup (the application run, then run again).
Turn(p) == \A q \in 1..(p - 1) : pc[q] \notin {"startup", "seeding"}

(* ----------------------- main.py: blog endpoints ---------------------- *)

Response(req, status, body, calls) ==
    [kind |-> "response", req |-> req, status |-> status, body |-> body, calls |-> calls]

\* A request is taken once startup has completed in some process.
Accepting == http.kind = "idle" /\ \E p \in Procs : pc[p] = "serving"

ListQuery_NoPublished(tag) ==
    [published |-> <<>>, tags |-> IF tag # <<>> /\ tag[1] # "" THEN tag ELSE <<>>,
     slug |-> <<>>]

ListQuery_NoTag(tag) == [published |-> <<TRUE>>, tags |-> <<>>, slug |-> <<>>]

\* q = {"published": True}; if tag: q["tags"] = tag
ListQuery(tag) ==
    [published |-> <<TRUE>>, tags |-> IF tag # <<>> /\ tag[1] # "" THEN tag ELSE <<>>,
     slug |-> <<>>]

\* the limit list_blogposts passes to get_documents
list_limit == ListLimit

list_result(dbh, coll, tag) ==
    IF dbh = "None"
    THEN <<SamplePost>>
    ELSE MapSeq(BlogPostOut, get_documents(dbh, coll, ListQuery(tag), list_limit))

list_blogposts ==
    /\ http.kind = "request" /\ http.op = "list"
    /\ http' = Response(http, 200, list_result(db, blogpost, http.arg),
                        IF db = "None" THEN <<>> ELSE <<"get_documents">>)
    /\ UNCHANGED <<db, blogpost, message, pc, sidx, outcome>>

GetQuery_AnyState(slug) == [published |-> <<>>, tags |-> <<>>, slug |-> <<slug>>]

\* {"slug": slug, "published": True}
GetQuery(slug) == [published |-> <<TRUE>>, tags |-> <<>>, slug |-> <<slug>>]

get_blogpost ==
    /\ http.kind = "request" /\ http.op = "get"
    /\ UNCHANGED <<db, blogpost, message, pc, sidx, outcome>>
    /\ IF db = "None"
       THEN IF http.arg = SampleSlug
            THEN http' = Response(http, 200, <<SamplePost>>, <<>>)
            ELSE http' = Response(http, 404, <<>>, <<>>)
       ELSE LET doc == find_one(blogpost, GetQuery(http.arg))
            IN IF doc = <<>>
               THEN http' = Response(http, 404, <<>>, <<"find_one">>)
               ELSE http' = Response(http, 200, <<BlogPostOut(doc[1])>>, <<"find_one">>)

(* ---------------------- main.py: contact endpoint --------------------- *)

SubmitWrites_Never(dbh) == FALSE

\* if db is not None:
SubmitWrites(dbh) == dbh # "None"

\* return {"status": "ok", "message": "Thanks for reaching out!"}
Ack == [status |-> "ok", message |-> "Thanks for reaching out!"]

submit_except_Swallow(e) == [status |-> 200, body |-> <<Ack>>]

\* except Exception as e: raise HTTPException(status_code=500, detail=str(e))
submit_except(e) == [status |-> 500, body |-> <<[detail |-> e]>>]

submit_contact ==
    /\ http.kind = "request" /\ http.op = "submit"
    /\ UNCHANGED <<db, blogpost, pc, sidx, outcome>>
    /\ IF ~Message(http.arg)
       THEN /\ http' = Response(http, 422, <<>>, <<>>)
            /\ UNCHANGED message
       ELSE IF SubmitWrites(db)
            THEN \E rejected \in BOOLEAN :
                   IF rejected
                   THEN /\ LET err == submit_except("StoreError")
                           IN http' = Response(http, err.status, err.body,
                                               <<"create_document">>)
                        /\ UNCHANGED message
                   ELSE /\ message' = create_document(message, model_dump(http.arg))
                        /\ http' = Response(http, 200, <<Ack>>, <<"create_document">>)
            ELSE /\ http' = Response(http, 200, <<Ack>>, <<>>)
                 /\ UNCHANGED message

(* --------------------------- environment ------------------------------ *)

TagInputs == {<<>>, <<"">>, <<"strength">>, <<"nutrition">>, <<"yoga">>}
SlugInputs == {SampleSlug, SecondSlug, "my-draft", "nonexistent-slug"}

BlogRequests ==
    {[kind |-> "request", op |-> "list", arg |-> t] : t \in TagInputs}
        \cup {[kind |-> "request", op |-> "get", arg |-> s] : s \in SlugInputs}

Emails == UNION {[1..n -> Chars] : n \in 0..MaxEmailLen}

ContactInputs ==
    [name : {<<>>, <<"">>, <<"Ann">>},
     email : {<<>>} \cup {<<e>> : e \in Emails},
     message : {<<>>, <<"hi">>}]

send_blog ==
    /\ Accepting
    /\ \E r \in BlogRequests : http' = r
    /\ UNCHANGED <<db, blogpost, message, pc, sidx, outcome>>

send_contact ==
    /\ Accepting
    /\ Len(message) < MaxMessages
    /\ \E raw \in ContactInputs : http' = [kind |-> "request", op |-> "submit", arg |-> raw]
    /\ UNCHANGED <<db, blogpost, message, pc, sidx, outcome>>

\* The client reads the response; the connection is free again.
receive ==
    /\ http.kind = "response"
    /\ http' = [kind |-> "idle"]
    /\ UNCHANGED <<db, blogpost, message, pc, sidx, outcome>>

ExtDocs ==
    [title : {"Draft"}, slug : {SampleSlug, "my-draft"}, content : {"ext"},
     tags : {<<>>, <<"", "nutrition">>}, published : BOOLEAN]

NumExternal == Cardinality({i \in DOMAIN blogpost : blogpost[i].content = "ext"})

\* A post written to the store by a path outside this API.
ExternalWrite ==
    /\ db = "Connected"
    /\ NumExternal < MaxExternal
    /\ \E d \in ExtDocs : blogpost' = insert_one(blogpost, d)
    /\ UNCHANGED <<db, message, pc, sidx, outcome, http>>

RECURSIVE Import(_, _, _)
Import(coll, d, n) == IF n = 0 THEN coll ELSE Import(insert_one(coll, d), d, n - 1)

\* A bulk import of more posts than one listing returns.
ExternalImport ==
    /\ db = "Connected"
    /\ NumExternal < MaxExternal
    /\ \E d \in ExtDocs : blogpost' = Import(blogpost, d, ListLimit + 1)
    /\ UNCHANGED <<db, message, pc, sidx, outcome, http>>

(* -------------------------- specifications ---------------------------- *)

Init ==
    /\ db \in {"None", "Connected"}
    /\ blogpost = <<>>
    /\ message = <<>>
    /\ pc = [p \in Procs |-> "startup"]
    /\ sidx = [p \in Procs |-> 0]
    /\ outcome = [p \in Procs |-> "pending"]
    /\ http = [kind |-> "idle"]

Startup == \E p \in Procs : Turn(p) /\ seed_sample_blogposts(p)

Workers == \E p \in Procs : seed_sample_blogposts(p)

\* The whole program, one process at a time.
Next ==
    \/ Startup
    \/ send_blog \/ list_blogposts \/ get_blogpost
    \/ send_contact \/ submit_contact \/ receive
    \/ ExternalWrite \/ ExternalImport

Spec == Init /\ [][Next]_vars

\* Seeding and the read endpoints, one process at a time, no other writer.
NextSeed == Startup \/ send_blog \/ list_blogposts \/ get_blogpost \/ receive

SpecSeed == Init /\ [][NextSeed]_vars

\* Several worker processes starting against one store.
NextWorkers == Workers \/ send_blog \/ list_blogposts \/ get_blogpost \/ receive

SpecWorkers == Init /\ [][NextWorkers]_vars

\* A started process gets to run its startup handler to its end.
FairWorkers == SpecWorkers /\ \A p \in Procs : WF_vars(seed_sample_blogposts(p))

\* The read endpoints over a store that other writers fill as well.
NextBlog ==
    \/ Startup
    \/ send_blog \/ list_blogposts \/ get_blogpost \/ receive
    \/ ExternalWrite \/ ExternalImport

SpecBlog == Init /\ [][NextBlog]_vars

\* The contact endpoint.
NextContact == Startup \/ send_contact \/ submit_contact \/ receive

SpecContact == Init /\ [][NextContact]_vars

(* ------------------------------ claims -------------------------------- *)

\* The step in which the handler of op answers the request in hand.
Handled(op) == http.kind = "request" /\ http.op = op /\ http'.kind = "response"

Answered(op) == http.kind = "response" /\ http.req.op = op

\* A valid ContactMessage: name and message present, email present and well formed.
ValidContact(raw) ==
    /\ raw.name # <<>>
    /\ raw.message # <<>>
    /\ raw.email # <<>> /\ EmailStr(raw.email[1])

HasTag(d, t) == \E i \in DOMAIN d.tags : d.tags[i] = t

IsPublished(d) == d.published

\* C1 as stated: every valid ContactMessage is answered with the success
\* acknowledgment, whether the store handle is None or available.
C1_Original ==
    (Answered("submit") /\ ValidContact(http.req.arg))
        => (http.status = 200 /\ http.body = <<Ack>>)

\* C1 (amended): a valid ContactMessage is answered with the success
\* acknowledgment when the store handle is None, and when the store is
\* available and accepts the insert; when the available store rejects the
\* insert the call fails with status 500 and nothing is stored.
C1_SubmitAcknowledged ==
    [][(Handled("submit") /\ ValidContact(http.arg)) =>
         IF db = "None"
         THEN http'.status = 200 /\ http'.body = <<Ack>>
         ELSE \/ /\ http'.status = 200 /\ http'.body = <<Ack>>
                 /\ Len(message') = Len(message) + 1
              \/ /\ http'.status = 500 /\ http'.body = <<[detail |-> "StoreError"]>>
                 /\ message' = message]_vars

C1_Witness ==
    /\ db = "None"
    /\ Answered("submit") /\ ValidContact(http.req.arg)
    /\ http.status = 200

\* C2: an invalid ContactMessage (name missing, message missing, email
\* missing or malformed) is refused with a validation error (422) before
\* any store interaction: no store call is made and both collections are
\* unchanged, whether the store is available or not.
C2_InvalidRejectedBeforeStore ==
    [][(Handled("submit") /\ ~ValidContact(http.arg)) =>
         /\ http'.status = 422
         /\ http'.calls = <<>>
         /\ message' = message
         /\ blogpost' = blogpost]_vars

C2_Witness ==
    /\ db = "Connected"
    /\ Answered("submit")
    /\ http.req.arg.name # <<>> /\ http.req.arg.message # <<>>
    /\ http.req.arg.email # <<>> /\ ~EmailStr(http.req.arg.email[1])
    /\ http.status = 422

\* C8 as stated: every valid submit_contact call that returns the success
\* acknowledgment has added exactly one document to the message collection.
C8_Original ==
    [][(Handled("submit") /\ ValidContact(http.arg) /\ http'.status = 200) =>
         Len(message') = Len(message) + 1]_vars

\* C8 (amended): a valid submit_contact call that returns the success
\* acknowledgment has added exactly one document (the submitted message) to
\* the message collection when the store is available, and none when the
\* store handle is None; never more than one.
C8_CreatedOncePerCall ==
    [][(Handled("submit") /\ ValidContact(http.arg) /\ http'.status = 200) =>
         IF db = "None"
         THEN message' = message
         ELSE /\ Len(message') = Len(message) + 1
              /\ SubSeq(message', 1, Len(message)) = message
              /\ message'[Len(message')].name = http.arg.name[1]
              /\ message'[Len(message')].email = http.arg.email[1]
              /\ message'[Len(message')].message = http.arg.message[1]]_vars

C8_Witness ==
    /\ db = "Connected"
    /\ Answered("submit") /\ ValidContact(http.req.arg)
    /\ http.status = 200
    /\ Len(message) = 1
    /\ message[1].email = http.req.arg.email[1]

\* C3: no post with published = false is in a list_blogposts result (with
\* or without a tag) or is returned by get_blogpost, for any slug.
C3_UnpublishedNeverReturned ==
    /\ Answered("list") => \A i \in DOMAIN http.body : http.body[i].published = TRUE
    /\ (Answered("get") /\ http.status = 200) =>
           (Len(http.body) = 1 /\ http.body[1].published = TRUE)
    /\ (Answered("get") /\ http.status # 200) => http.body = <<>>

C3_Witness ==
    /\ db = "Connected"
    /\ Answered("list")
    /\ Len(http.body) > 0
    /\ Len(blogpost) > Len(http.body)
    /\ ~blogpost[1].published

\* C4 as stated: with a tag, list_blogposts returns only posts whose tags
\* hold exactly that tag; without one, all published posts capped at 50;
\* for every tag value (the empty string too) and in every store mode.
C4_Original ==
    [][Handled("list") =>
         /\ http.arg # <<>> =>
                \A i \in DOMAIN http'.body : HasTag(http'.body[i], http.arg[1])
         /\ http.arg = <<>> =>
                http'.body = MapSeq(BlogPostOut,
                                    Take(SelectSeq(blogpost, IsPublished), ListLimit))]_vars

\* C4 (amended): with the store available, list_blogposts called with a
\* non-empty tag returns only published posts whose tags hold exactly that
\* tag, at most 50 of them; called without a tag, or with the empty string,
\* it returns all published posts in store order, capped at 50.  With the
\* store handle None it returns the one hardcoded sample post whatever the
\* tag.
C4_TagFilter ==
    [][Handled("list") =>
         IF db = "None"
         THEN http'.body = <<SamplePost>>
         ELSE IF http.arg # <<>> /\ http.arg[1] # ""
              THEN /\ Len(http'.body) <= ListLimit
                   /\ \A i \in DOMAIN http'.body :
                        /\ HasTag(http'.body[i], http.arg[1])
                        /\ http'.body[i].published
              ELSE http'.body = MapSeq(BlogPostOut,
                                       Take(SelectSeq(blogpost, IsPublished), ListLimit))]_vars

C4_Witness ==
    /\ db = "Connected"
    /\ Answered("list")
    /\ http.req.arg = <<"nutrition">>
    /\ Len(http.body) > 0
    /\ blogpost[1].published /\ ~HasTag(blogpost[1], "nutrition")

\* C5: get_blogpost for a slug that matches no retrievable post fails with
\* NotFound (404): with the store available, whenever no document has that
\* slug with published = true; with the store handle None, for every slug
\* but the sample slug, for which the hardcoded sample post is returned.
C5_NotFound ==
    [][Handled("get") =>
         IF db = "None"
         THEN IF http.arg = SampleSlug
              THEN http'.status = 200 /\ http'.body = <<SamplePost>>
              ELSE http'.status = 404 /\ http'.body = <<>>
         ELSE (~\E i \in DOMAIN blogpost :
                   blogpost[i].slug = http.arg /\ blogpost[i].published)
                  => (http'.status = 404 /\ http'.body = <<>>)]_vars

C5_Witness ==
    /\ db = "Connected"
    /\ Answered("get")
    /\ http.status = 404
    /\ Len(blogpost) > 0
    /\ blogpost[1].slug = http.req.arg

\* The step in which process p's seeder makes its count check.
CountCheck(p) == pc[p] = "startup" /\ pc'[p] # "startup"

\* C6 as stated: of invocations made in sequence only the first inserts
\* fixture posts, and an invocation that finds count > 0 leaves the store
\* unchanged.
C6_Original ==
    /\ [](\A p \in Procs : p > 1 => sidx[p] = 0)
    /\ [][\A p \in Procs :
            (CountCheck(p) /\ Len(blogpost) > 0) => blogpost' = blogpost]_vars

\* C6 (amended): seeding is idempotent: of invocations made in sequence at
\* most one inserts fixture posts -- the first to find the collection empty,
\* which is not the first call when that call's count query failed or its
\* first insert was rejected -- and an invocation that finds the blogpost
\* collection with count > 0 inserts nothing and leaves the store unchanged.
C6_SeedIdempotent ==
    /\ [](\A p, q \in Procs : (sidx[p] > 0 /\ sidx[q] > 0) => p = q)
    /\ [][\A p \in Procs :
            (CountCheck(p) /\ Len(blogpost) > 0) =>
                (blogpost' = blogpost /\ pc'[p] # "seeding")]_vars

C6_Witness ==
    /\ sidx[1] = Len(Samples)
    /\ outcome[2] = "noop"
    /\ Len(blogpost) = Len(Samples)

FixturesOut == MapSeq(BlogPostOut, Samples)

C9_SeedNeverRaises ==
    /\ [](\A p \in Procs : pc[p] # "crashed")
    /\ \A p \in Procs : <>(pc[p] = "serving")

C9_Witness ==
    \E p \in Procs :
        /\ outcome[p] = "swallowed"
        /\ pc[p] = "serving"
        /\ sidx[p] = 1

\* C10 as stated: whatever seeder runs (also of several processes whose
\* count checks and inserts interleave) and API requests take place from
\* an empty store, no two blogpost documents have the same slug.
C10_SlugUnique ==
    \A i, j \in DOMAIN blogpost : i # j => blogpost[i].slug # blogpost[j].slug

====
